---- MODULE Spec2Model ----
(***************************************************************************)
(* Verification model of the multi-provider document discovery and         *)
(* retrieval pipeline of palladium_research:                               *)
(*   - the web-search adapter   (retrievers/yandex_search.py)              *)
(*   - the retrieval orchestrator (utils/difficult_question_processing.py) *)
(*   - the fetcher and keyword download (retrievers/openalex.py,           *)
(*     retrievers/_serpapi.py)                                             *)
(*   - the mirror-retrieval adapter (sci_hub.py)                           *)
(*   - the academic-index record extraction (main.py)                      *)
(* Each component has its own variables and its own specification; the     *)
(* variables of the other components stay at their initial value.          *)
(***************************************************************************)
EXTENDS Integers, Sequences, FiniteSets, TLC

(***************************************************************************)
(* Bounds of the model.                                                    *)
(***************************************************************************)
NQ == 2            \* questions in one batch
MaxList == 2       \* longest passage / item list of one web-search response
NCalls == 2        \* extract_openalex_pdfs calls (keywords) in one run
MaxHits == 2       \* works one keyword search returns
MaxBody == 2       \* chunks in the longest response body
MaxIndexHits == 2  \* hits one title search returns
MaxPages == 3      \* page requests of one search_openalex call that are counted
MaxPageLen == 2    \* works on one result page
MaxQueryLen == 402 \* longest query string
MaxDateParts == 3  \* most parts of a publication date string
MaxExactHits == 3  \* most hits of one search of search_by_exact_title
MaxWrites == 2     \* most files written in the runs of the output-directory model
MaxUrls == 2       \* most URLs one caller classifies
MaxItems == 2      \* most docs or items of one search response
NSeeds == 2        \* number of character patterns of the query strings
MaxWanted == 3     \* largest max_results argument of search_openalex

(***************************************************************************)
(* Program constants.                                                      *)
(***************************************************************************)
MaxAttempts == 3        \* for attempt in range(3)
LastAttempt == 2        \* if attempt < 2
DefaultMaxResults == 1  \* def extract_yandex_snippets(self, max_results=1)
SlugLimit == 100        \* safe_filename[:100]
ExtractMaxResults == 10 \* def extract_openalex_pdfs(query, max_results=10)
QueryLimit == 400
per_page == 200
MultipleMaxResults == 5 \* def search_multiple_articles(title, max_results=5)

(***************************************************************************)
(* Helpers.                                                                *)
(***************************************************************************)
SeqUpTo(S, n) == UNION {[1..k -> S] : k \in 0..n}

Range(s) == {s[i] : i \in 1..Len(s)}

Take(s, n) == SubSeq(s, 1, IF Len(s) < n THEN Len(s) ELSE n)

RECURSIVE SelectNonEmpty(_)
SelectNonEmpty(s) ==
    IF s = <<>> THEN <<>>
    ELSE IF Head(s) = "" THEN SelectNonEmpty(Tail(s))
    ELSE <<Head(s)>> \o SelectNonEmpty(Tail(s))

VARIABLES
    \* ---- orchestrator: download_relevant_pdfs
    opc,            \* position: "keywords" | "web" | "translate" | "openalex" | "raised"
    question_no,    \* index of the question the loop of line 59 is at
    chunks,         \* the run-wide snippet set (line 57)
    all_keywords,   \* the run-wide keyword set (line 56)
    oerr,           \* the exception that left download_relevant_pdfs, or "none"
    provider_ok,    \* TRUE once some provider call of the run returned normally
    web_calls,      \* for each question, the number of web searches started for it
    \* ---- web-search adapter: YandexSearch.extract_yandex_snippets
    wpc,            \* position: "idle" | "request" | "decode" | "returned" | "raised"
    attempt,        \* the loop variable of line 62
    wlog,           \* the requests sent and the sleeps taken by the current call
    wret,           \* what the call returned (a list) or the exception it raised
    \* ---- keyword download: extract_openalex_pdfs, download_pdf_from_url
    bpc,            \* position: "idle" | "work" | "urls"
    call_no,        \* number of extract_openalex_pdfs calls started so far
    results,        \* the works the search of the current call returned
    work_no,        \* the loop variable i of line 166
    todo,           \* the URLs of pdf_urls the loop of line 208 has not tried yet
    scihub_searcher,\* whether the call holds a SciHubSearcher (lines 154-161)
    downloaded_files, \* the list the current call builds (line 151)
    files,          \* the output directory: file path -> content or NoFile
    fetch_log,      \* the download_pdf_from_url calls made for the current work, in order
    fetched,        \* every download_pdf_from_url call of the run: (call, work, path, ok)
    mirror_log,     \* every search_paper_by_doi call of the run: (call, work, doi)
    \* ---- mirror-retrieval adapter: SciHubSearcher.search_paper_by_doi
    mpc,            \* position: "idle" | "primary" | "mirrors" | "returned" | "raised"
    mdoi,           \* the doi argument
    mirror_no,      \* index in mirrors of the next mirror of the loop of line 49
    attempted,      \* the mirror requests sent so far, in order, with what came back
    mres,           \* the value search_paper_by_doi returned
    \* ---- academic-index record extraction: main.py
    ipc,            \* position: "idle" | "extract" | "returned"
    routine,        \* "search_article_link" | "search_multiple_articles"
    hits,           \* number of hits of the search
    rank,           \* index of the hit being processed
    article,        \* the hit last processed
    article_info,   \* the record built from it
    articles,       \* the list search_multiple_articles builds
    scihub_calls,   \* the search_paper_by_doi calls made: (hit, doi argument)
    iret,           \* what the routine returned
    \* ---- paged keyword search: search_openalex
    ppc,            \* position: "idle" | "loop" | "returned"
    max_results,    \* the max_results argument
    all_results,    \* the list being built (line 33)
    seen_ids,       \* line 34
    page_no,        \* number of page requests sent, counted up to MaxPages
    last_page,      \* the results of the last page received
    first_seen,     \* for each id, the first work received with it, or NoWork
    page_overrun,   \* TRUE once a page held more works than its request asked for
    \* ---- query of the web-search adapter: YandexSearch.__init__
    qpc,            \* position: "new" | "constructed" | "sent"
    query,          \* the query argument of the constructor
    self_query,     \* self.query (line 30)
    queryText,      \* the queryText of the request body (lines 47-49)
    \* ---- web-search adapter with domains: YandexSearch.search (utils)
    upc,            \* position: "idle" | "request" | "decode" | "returned" | "raised"
    query_domains,  \* self.query_domains (line 32)
    search_max,     \* the max_results argument of search
    data,           \* the response of the request that succeeded
    uret,           \* what search returned (a list) or the exception it raised
    \* ---- link classifier: is_pdf_url
    to_classify,    \* the URLs a caller still has to classify
    classified,     \* the URLs classified so far, each with what is_pdf_url returned
    \* ---- output directories: extract_openalex_pdfs, extract_serpapi_pdfs
    written,        \* the files written so far: (topic of the run, provider, path)
    \* ---- exact-title lookup: search_by_exact_title
    xpc,            \* position: "idle" | "search" | "build" | "returned"
    tried,          \* the searches made so far, in order, each with its result set
    xerror,         \* TRUE once an exception was raised inside the routine
    xret,           \* what the routine returned: None or the record of a hit
    \* ---- publication date of a hit: search_article_link, lines 169-184
    dpc,            \* position: "new" | "parsed"
    date_parts,     \* publication_date.split('-'); <<>> for an absent date
    publication_month,
    publication_day

orchVars == <<opc, question_no, chunks, all_keywords, oerr, provider_ok, web_calls>>
webVars == <<wpc, attempt, wlog, wret>>
batchVars == <<bpc, call_no, results, work_no, todo, scihub_searcher,
               downloaded_files, files, fetch_log, fetched, mirror_log>>

\* What the actions of one component leave alone.
mirrorVars == <<mpc, mdoi, mirror_no, attempted, mres>>
indexVars == <<ipc, routine, hits, rank, article, article_info, articles,
               scihub_calls, iret>>
pageVars == <<ppc, max_results, all_results, seen_ids, page_no, last_page, first_seen,
              page_overrun>>
queryVars == <<qpc, query, self_query, queryText>>
searchVars == <<upc, query_domains, search_max, data, uret>>
classifyVars == <<to_classify, classified>>
pathVars == <<written>>
exactVars == <<xpc, tried, xerror, xret>>
dateVars == <<dpc, date_parts, publication_month, publication_day>>
outsideOrch == <<batchVars, mirrorVars, indexVars, pageVars, queryVars, searchVars,
    classifyVars, pathVars, exactVars, dateVars>>
outsideBatch == <<orchVars, webVars, mirrorVars, indexVars, pageVars, queryVars, searchVars,
    classifyVars, pathVars, exactVars, dateVars>>
outsideMirror == <<orchVars, webVars, batchVars, indexVars, pageVars, queryVars, searchVars,
    classifyVars, pathVars, exactVars, dateVars>>
outsideIndex == <<orchVars, webVars, batchVars, mirrorVars, pageVars, queryVars, searchVars,
    classifyVars, pathVars, exactVars, dateVars>>
outsidePages == <<orchVars, webVars, batchVars, mirrorVars, indexVars, queryVars, searchVars,
    classifyVars, pathVars, exactVars, dateVars>>
outsideQuery == <<orchVars, webVars, batchVars, mirrorVars, indexVars, pageVars, searchVars,
    classifyVars, pathVars, exactVars, dateVars>>
outsideClassify == <<orchVars, webVars, batchVars, mirrorVars, indexVars, pageVars,
    queryVars, searchVars, pathVars, exactVars, dateVars>>
outsidePaths == <<orchVars, webVars, batchVars, mirrorVars, indexVars, pageVars,
    queryVars, searchVars, classifyVars, exactVars, dateVars>>
outsideExact == <<orchVars, webVars, batchVars, mirrorVars, indexVars, pageVars,
    queryVars, searchVars, classifyVars, pathVars, dateVars>>
outsideDate == <<orchVars, webVars, batchVars, mirrorVars, indexVars, pageVars,
    queryVars, searchVars, classifyVars, pathVars, exactVars>>
outsideSearch == <<orchVars, webVars, batchVars, mirrorVars, indexVars, pageVars, queryVars,
    classifyVars, pathVars, exactVars, dateVars>>

(***************************************************************************)
(* Web-search adapter.                                                     *)
(***************************************************************************)
Snippets == {"s1", "s2"}

\* What one requests.post(...) followed by raise_for_status() can do.
PostOutcomes == {"ok", "connection_error", "timeout", "http_error"}

\* A retry clause that also catches the HTTPError of raise_for_status.
TransientOrHttp(o) == o \in {"connection_error", "timeout", "http_error"}

\* except (requests.exceptions.ConnectionError, requests.exceptions.Timeout)
Transient(o) == o \in {"connection_error", "timeout"}

\* The response bodies: not JSON at all, or a JSON object that may carry
\* rawData (absent, not base64/UTF-8, base64 of malformed XML, base64 of
\* XML with passages; "" is a passage of white space only) and may carry
\* a "result" object with items.
Bodies ==
    {[json |-> FALSE, rawData |-> "absent", passages |-> <<>>,
      hasResult |-> FALSE, items |-> <<>>]}
    \cup {[json |-> TRUE, rawData |-> r, passages |-> <<>>,
           hasResult |-> FALSE, items |-> <<>>] : r \in {"absent", "bad_b64", "bad_xml"}}
    \cup {[json |-> TRUE, rawData |-> "xml", passages |-> p,
           hasResult |-> FALSE, items |-> <<>>] : p \in SeqUpTo(Snippets \cup {""}, MaxList)}
    \cup {[json |-> TRUE, rawData |-> "absent", passages |-> <<>>,
           hasResult |-> TRUE, items |-> i] : i \in SeqUpTo(Snippets, MaxList)}

Returned(v) == [ok |-> TRUE, val |-> v, err |-> "none"]
Raised(e) == [ok |-> FALSE, val |-> <<>>, err |-> e]

\* _parse_xml_results of retrievers/yandex_search.py
_parse_xml_results(body, limit) ==
    IF body.rawData = "bad_xml" THEN Raised("ParseError")
    ELSE Returned(Take(SelectNonEmpty(body.passages), limit))

\* Lines 83-100: decoding of the response of a successful request.
DecodeResponse(body, limit) ==
    IF ~body.json THEN Raised("invalid_json")
    ELSE IF body.rawData # "absent" THEN
        IF body.rawData = "bad_b64" THEN Raised("rawData_decode")
        ELSE _parse_xml_results(body, limit)
    ELSE IF ~body.hasResult THEN Raised("unexpected_structure")
    ELSE Returned(Take(body.items, limit))

PostEvent(o) == [ev |-> "post", outcome |-> o, secs |-> 0]
SleepEvent(n) == [ev |-> "sleep", outcome |-> "-", secs |-> n]

\* One iteration of the loop of lines 62-80.
Post ==
    /\ opc = "web"
    /\ wpc = "request"
    /\ attempt < MaxAttempts
    /\ \E o \in PostOutcomes :
        \/ /\ o = "ok"                      \* break
           /\ wlog' = wlog \o <<PostEvent(o)>>
           /\ wpc' = "decode"
           /\ UNCHANGED <<attempt, wret>>
        \/ /\ Transient(o)
           /\ attempt < LastAttempt         \* time.sleep(2 ** attempt); continue
           /\ wlog' = wlog \o <<PostEvent(o), SleepEvent(2 ^ attempt)>>
           /\ attempt' = attempt + 1
           /\ UNCHANGED <<wpc, wret>>
        \/ /\ Transient(o)
           /\ ~(attempt < LastAttempt)      \* raise Exception("Сбой после 3 попыток")
           /\ wlog' = wlog \o <<PostEvent(o)>>
           /\ wpc' = "raised"
           /\ wret' = Raised("failed_after_3_attempts")
           /\ UNCHANGED attempt
        \/ /\ o = "http_error"              \* raise Exception("HTTP <code>: <body>")
           /\ wlog' = wlog \o <<PostEvent(o)>>
           /\ wpc' = "raised"
           /\ wret' = Raised("http_status")
           /\ UNCHANGED attempt
    /\ UNCHANGED <<orchVars, outsideOrch>>

\* Lines 83-100, after the loop was left by break.
Decode ==
    /\ opc = "web"
    /\ wpc = "decode"
    /\ \E body \in Bodies :
        /\ wret' = DecodeResponse(body, DefaultMaxResults)
        /\ wpc' = IF wret'.ok THEN "returned" ELSE "raised"
    /\ UNCHANGED <<attempt, wlog>>
    /\ UNCHANGED <<orchVars, outsideOrch>>

(***************************************************************************)
(* Retrieval orchestrator: download_relevant_pdfs.                         *)
(***************************************************************************)
\* The keywords the keyword chain can produce; "solo" is a single word,
\* which line 88 drops (len(x.split(" ")) > 1).
KeywordPool == {"kw one", "solo"}
MultiWord(k) == k # "solo"
Palladium == "palladium_ru"     \* the literal keyword appended at line 88
TranslatedPool == {"kw one en"}

\* The parameters extract_openalex_pdfs declares (retrievers/openalex.py:137)
\* and the keyword arguments the call of line 97 passes.
ExtractParams == {"query", "max_results"}
CallKeywords97 == {"article_name", "seen_titles"}

\* Lines 60-77: the keyword chain is invoked outside any try block; the
\* keywords it returns are split and added to all_keywords.
InvokeKeywordChain ==
    /\ opc = "keywords"
    /\ question_no <= NQ
    /\ \/ /\ opc' = "raised"                \* serp_chain.invoke raises
          /\ oerr' = "keyword_chain_error"
          /\ UNCHANGED <<all_keywords, provider_ok, webVars, web_calls>>
       \/ \E ks \in SUBSET KeywordPool :
            /\ all_keywords' = all_keywords \cup ks
            /\ web_calls' = [web_calls EXCEPT ![question_no] = @ + 1]
            /\ provider_ok' = TRUE
            /\ opc' = "web"                 \* line 82: YandexSearch(query).extract_yandex_snippets()
            /\ wpc' = "request"
            /\ attempt' = 0
            /\ wlog' = <<>>
            /\ wret' = Returned(<<>>)
            /\ UNCHANGED oerr
    /\ UNCHANGED <<question_no, chunks>>
    /\ UNCHANGED outsideOrch

\* Lines 82-83: the adapter's call has ended; its list is added to chunks, or
\* its exception leaves download_relevant_pdfs (the call is in no try block).
WebSearchEnds ==
    /\ opc = "web"
    /\ wpc \in {"returned", "raised"}
    /\ \/ /\ wpc = "returned"
          /\ chunks' = chunks \cup Range(wret.val)
          /\ provider_ok' = TRUE
          /\ question_no' = question_no + 1
          /\ opc' = IF question_no < NQ THEN "keywords" ELSE "translate"
          /\ UNCHANGED oerr
       \/ /\ wpc = "raised"
          /\ opc' = "raised"
          /\ oerr' = wret.err
          /\ UNCHANGED <<chunks, provider_ok, question_no>>
    /\ wpc' = "idle"
    /\ UNCHANGED <<all_keywords, attempt, wlog, wret, web_calls>>
    /\ UNCHANGED outsideOrch

\* Lines 88-92: single words are dropped, the literal keyword is appended,
\* and the keywords are handed to translate_keywords.
TranslateKeywords ==
    /\ opc = "translate"
    /\ \/ /\ opc' = "raised"                \* translate_keywords raises
          /\ oerr' = "translate_error"
          /\ UNCHANGED <<all_keywords, provider_ok>>
       \/ \E tr \in SUBSET TranslatedPool :
            /\ all_keywords' = {k \in all_keywords : MultiWord(k)} \cup {Palladium} \cup tr
            /\ provider_ok' = TRUE
            /\ opc' = "openalex"
            /\ UNCHANGED oerr
    /\ UNCHANGED <<question_no, chunks, webVars, web_calls>>
    /\ UNCHANGED outsideOrch

\* Lines 96-97: the first call of the keyword loop. The call passes
\* article_name= and seen_titles=, which extract_openalex_pdfs(query,
\* max_results=10) does not declare: Python raises TypeError before the
\* body runs, in no try block. The list of line 96 is never empty.
CallExtractOpenalex ==
    /\ opc = "openalex"
    /\ all_keywords # {}
    /\ ~(CallKeywords97 \subseteq ExtractParams)
    /\ opc' = "raised"
    /\ oerr' = "TypeError"
    /\ UNCHANGED <<question_no, chunks, all_keywords, provider_ok, webVars, web_calls>>
    /\ UNCHANGED outsideOrch

\* Line 107: return chunks, all_keywords. The lists the
\* extract_openalex_pdfs calls return are bound to openalex_results (lines
\* 97 and 105) and not used.
ReturnedPair == <<"chunks", "all_keywords">>

OrchInit ==
    /\ opc = "keywords"
    /\ question_no = 1
    /\ chunks = {}
    /\ all_keywords = {}
    /\ oerr = "none"
    /\ provider_ok = FALSE
    /\ web_calls = [q \in 1..NQ |-> 0]

WebIdle ==
    /\ wpc = "idle"
    /\ attempt = 0
    /\ wlog = <<>>
    /\ wret = Returned(<<>>)

(***************************************************************************)
(* Keyword download: extract_openalex_pdfs and download_pdf_from_url       *)
(* (retrievers/openalex.py).                                               *)
(***************************************************************************)
\* A title is a sequence of characters: letters, the space, the hyphen and
\* "?" for any character that is neither \w, \s nor "-".
RECURSIVE DropOther(_)
DropOther(t) ==                     \* re.sub(r'[^\w\s-]', '', title)
    IF t = <<>> THEN <<>>
    ELSE IF Head(t) = "?" THEN DropOther(Tail(t))
    ELSE <<Head(t)>> \o DropOther(Tail(t))

RECURSIVE LStrip(_)
LStrip(t) == IF t # <<>> /\ Head(t) = " " THEN LStrip(Tail(t)) ELSE t

RECURSIVE RStrip(_)
RStrip(t) ==
    IF t # <<>> /\ t[Len(t)] = " " THEN RStrip(SubSeq(t, 1, Len(t) - 1)) ELSE t

Strip(t) == RStrip(LStrip(t))       \* .strip()

IsSeparator(c) == c \in {" ", "-"}

RECURSIVE DropSeparators(_)
DropSeparators(t) ==
    IF t # <<>> /\ IsSeparator(Head(t)) THEN DropSeparators(Tail(t)) ELSE t

RECURSIVE JoinRuns(_)
JoinRuns(t) ==                      \* re.sub(r'[-\s]+', '_', safe_filename)
    IF t = <<>> THEN <<>>
    ELSE IF IsSeparator(Head(t)) THEN <<"_">> \o JoinRuns(DropSeparators(t))
    ELSE <<Head(t)>> \o JoinRuns(Tail(t))

\* Lines 198-199.
safe_filename(title) == Take(JoinRuns(Strip(DropOther(title))), SlugLimit)

\* Lines 200-201: f"{i:02d}_{safe_filename}.pdf" under the output directory
\* of line 148, which is the same directory in every call.
filepath(i, title) == [ordinal |-> i, slug |-> safe_filename(title)]

\* The works the index can return. "" stands for an absent field.
Works ==
    { [id |-> "W1", title |-> <<"a", "?", "b">>, doi |-> "https://doi.org/10.1/a",
       best_oa_pdf |-> "https://r.org/a.pdf", primary_pdf |-> "",
       locations_pdf |-> <<>>, oa_url |-> "https://r.org/a.pdf"],
      [id |-> "W2", title |-> <<"a", "b">>, doi |-> "",
       best_oa_pdf |-> "", primary_pdf |-> "https://p.org/b",
       locations_pdf |-> <<"https://p.org/b", "https://q.org/b.pdf">>, oa_url |-> "https://p.org/land"],
      [id |-> "W3", title |-> <<"b", " ", "-", "a">>, doi |-> "https://doi.org/10.1/c",
       best_oa_pdf |-> "", primary_pdf |-> "",
       locations_pdf |-> <<>>, oa_url |-> ""] }

\* str.endswith('.pdf') after lower(), on the URLs of the model.
EndsWithPdf(u) == u \in {"https://r.org/a.pdf", "https://q.org/b.pdf", "https://m.se/x.pdf"}

\* Lines 169-192: the candidate URLs of a work, before line 195.
pdf_urls(work) ==
    (IF work.best_oa_pdf # "" THEN {work.best_oa_pdf} ELSE {})
    \cup (IF work.primary_pdf # "" THEN {work.primary_pdf} ELSE {})
    \cup {u \in Range(work.locations_pdf) : u # ""}
    \cup (IF work.oa_url # "" /\ EndsWithPdf(work.oa_url) THEN {work.oa_url} ELSE {})

\* Line 195: list(set(pdf_urls)) keeps each URL once, in the order of the
\* set's iteration, which the program does not fix.
Orders(S) ==
    {f \in [1..Cardinality(S) -> S] : \A x \in S : \E k \in 1..Cardinality(S) : f[k] = x}

\* The result lists a keyword search can return: works without repetition.
ResultLists ==
    {r \in SeqUpTo(Works, MaxHits) : \A a, b \in 1..Len(r) : a # b => r[a] # r[b]}

\* What a GET of a URL can do: fail before any body is read (connection
\* error, timeout, or an error status at raise_for_status), deliver a body
\* of n chunks, or break after k chunks of the body were read.
Responses ==
    {[status |-> "request_error", chunks |-> 0, complete |-> FALSE]}
    \cup {[status |-> "ok", chunks |-> n, complete |-> TRUE] : n \in 0..MaxBody}
    \cup {[status |-> "ok", chunks |-> k, complete |-> FALSE] : k \in 0..(MaxBody - 1)}

NoFile == [work |-> "none", size |-> 0 - 1]
Paths == {[ordinal |-> i, slug |-> safe_filename(w.title)] : i \in 1..MaxHits + 1, w \in Works}

\* Lines 113-128: the file is opened for writing (created or truncated) once
\* the response passed raise_for_status, and each chunk read is written to it.
WriteBody(fs, path, work, resp) ==
    IF resp.status = "ok"
    THEN [fs EXCEPT ![path] = [work |-> work.id, size |-> resp.chunks]]
    ELSE fs

\* Lines 130-135: both except clauses print and return False.
OnDownloadError(fs, path) == fs

\* download_pdf_from_url: the value returned and the files afterwards.
download_pdf_from_url(fs, path, work, resp) ==
    IF resp.status = "ok" /\ resp.complete
    THEN [ok |-> TRUE, fs |-> WriteBody(fs, path, work, resp)]
    ELSE [ok |-> FALSE, fs |-> OnDownloadError(WriteBody(fs, path, work, resp), path)]

\* Lines 210-219 and 232-241: the record appended after a download.
FileRecord(work, path, url, fs, source) ==
    [title |-> work.title, filepath |-> path, url |-> url,
     size |-> fs[path].size, doi |-> work.doi, source |-> source, work |-> work.id]

FetchEntry(work, path, url, source, ok) ==
    [work |-> work.id, path |-> path, url |-> url, source |-> source, ok |-> ok,
     before |-> files[path]]

Fetched(work, path, ok) ==
    [call |-> call_no, work |-> work.id, path |-> path, ok |-> ok]

\* What search_paper_by_doi can hand back to line 227.
ScihubResults ==
    {[status |-> "not_found", pdf_url |-> ""],
     [status |-> "success", pdf_url |-> "https://m.se/x.pdf"]}

CurrentWork == results[work_no]

\* What the keyword search of search_with_pyalex can raise: the import of
\* pyalex fails, the request of Works().search(query).get() fails, or the
\* answer cannot be parsed.
SearchErrors == {"ImportError", "ConnectionError", "JSONDecodeError"}

\* Line 95: "except ImportError" is the only handler of search_with_pyalex;
\* after it search_openalex gives the result list.
CaughtBySearch(e) == e = "ImportError"

\* A test that forgets the DOI.
UsesScihubWithoutDoi(doi, searcher) == searcher

\* Line 224, after "not downloaded": "doi and scihub_searcher".
UsesScihub(doi, searcher) == doi # "" /\ searcher

\* Lines 137-164: the search, the early return on no result, the set-up.
StartCall ==
    /\ bpc = "idle"
    /\ call_no < NCalls
    /\ call_no' = call_no + 1
    /\ \E e \in SearchErrors \cup {"none"} :
        IF e # "none" /\ ~CaughtBySearch(e)
        THEN /\ bpc' = "raised"             \* line 140 is in no try block
             /\ UNCHANGED <<results, scihub_searcher>>
        ELSE \E r \in ResultLists, sh \in BOOLEAN :
                /\ results' = r
                /\ scihub_searcher' = sh
                /\ bpc' = IF r = <<>> THEN "idle" ELSE "work"
    /\ work_no' = 1
    /\ todo' = <<>>
    /\ downloaded_files' = <<>>
    /\ fetch_log' = <<>>
    /\ UNCHANGED <<files, fetched, mirror_log>>
    /\ UNCHANGED outsideBatch

\* Lines 166-203: the next work of results[:max_results], its URLs and its
\* file name; line 262-270 when the list is exhausted.
NextWork ==
    /\ bpc = "work"
    /\ \/ /\ work_no <= Len(Take(results, ExtractMaxResults))
          /\ \E order \in Orders(pdf_urls(CurrentWork)) : todo' = order
          /\ bpc' = "urls"
       \/ /\ work_no > Len(Take(results, ExtractMaxResults))
          /\ bpc' = "idle"                  \* return downloaded_files
          /\ UNCHANGED todo
    /\ fetch_log' = <<>>
    /\ UNCHANGED <<call_no, results, work_no, scihub_searcher, downloaded_files,
                   files, fetched, mirror_log>>
    /\ UNCHANGED outsideBatch

\* Lines 207-221: one iteration of the loop over pdf_urls.
TryUrl ==
    /\ bpc = "urls"
    /\ todo # <<>>
    /\ LET work == CurrentWork
           path == filepath(work_no, work.title)
           url == Head(todo)
       IN \E resp \in Responses :
            LET d == download_pdf_from_url(files, path, work, resp)
            IN /\ files' = d.fs
               /\ fetch_log' = Append(fetch_log, FetchEntry(work, path, url, "openalex", d.ok))
               /\ fetched' = fetched \cup {Fetched(work, path, d.ok)}
               /\ IF d.ok
                  THEN /\ downloaded_files' =
                            Append(downloaded_files, FileRecord(work, path, url, d.fs, "openalex"))
                       /\ work_no' = work_no + 1    \* break; nothing is left to do for the work
                       /\ bpc' = "work"
                       /\ todo' = <<>>
                  ELSE /\ todo' = Tail(todo)
                       /\ UNCHANGED <<downloaded_files, work_no, bpc>>
    /\ UNCHANGED <<call_no, results, scihub_searcher, mirror_log>>
    /\ UNCHANGED outsideBatch

\* Lines 223-260: no URL of the work was downloaded.
Fallback ==
    /\ bpc = "urls"
    /\ todo = <<>>
    /\ LET work == CurrentWork
           path == filepath(work_no, work.title)
       IN \/ /\ UsesScihub(work.doi, scihub_searcher)
             /\ mirror_log' = mirror_log \cup {[call |-> call_no, work |-> work.id, doi |-> work.doi]}
             /\ \E sr \in ScihubResults :
                  \/ /\ sr.status = "success" /\ sr.pdf_url # ""
                     /\ \E resp \in Responses :
                          LET d == download_pdf_from_url(files, path, work, resp)
                          IN /\ files' = d.fs
                             /\ fetch_log' = Append(fetch_log,
                                    FetchEntry(work, path, sr.pdf_url, "scihub", d.ok))
                             /\ fetched' = fetched \cup {Fetched(work, path, d.ok)}
                             /\ downloaded_files' =
                                    IF d.ok
                                    THEN Append(downloaded_files,
                                                FileRecord(work, path, sr.pdf_url, d.fs, "scihub"))
                                    ELSE downloaded_files
                  \/ /\ ~(sr.status = "success" /\ sr.pdf_url # "")
                     /\ UNCHANGED <<files, fetch_log, fetched, downloaded_files>>
          \/ /\ ~UsesScihub(work.doi, scihub_searcher)
             /\ UNCHANGED <<files, fetch_log, fetched, downloaded_files, mirror_log>>
    /\ work_no' = work_no + 1
    /\ bpc' = "work"
    /\ UNCHANGED <<call_no, results, todo, scihub_searcher>>
    /\ UNCHANGED outsideBatch

BatchInit ==
    /\ bpc = "idle"
    /\ call_no = 0
    /\ results = <<>>
    /\ work_no = 1
    /\ todo = <<>>
    /\ scihub_searcher = FALSE
    /\ downloaded_files = <<>>
    /\ files = [p \in Paths |-> NoFile]
    /\ fetch_log = <<>>
    /\ fetched = {}
    /\ mirror_log = {}


(***************************************************************************)
(* Mirror-retrieval adapter: sci_hub.py.                                   *)
(***************************************************************************)
\* Lines 42-47.
mirrors == <<"https://sci-hub.ru", "https://sci-hub.st",
             "https://sci-hub.se", "https://sci-hub.ren">>

\* Lines 20-25: the patterns, in the order of the list.
patterns == <<"src", "href", "location_href", "bare_url">>

\* A page is what re.findall gives for each pattern: a list of matches. A
\* match starts with "http", with "//", with "/", or with none of them.
Match(kind, text) == [kind |-> kind, text |-> text]
NoMatches == [p \in Range(patterns) |-> <<>>]
HtmlDocs ==
    { NoMatches,
      [NoMatches EXCEPT !["src"] = <<Match("other", "rel.pdf")>>],
      [NoMatches EXCEPT !["src"] = <<Match("slashslash", "//cdn/a.pdf")>>,
                        !["href"] = <<Match("http", "https://h/b.pdf")>>],
      [NoMatches EXCEPT !["src"] = <<Match("other", "rel.pdf"), Match("slash", "/d/c.pdf")>>],
      [NoMatches EXCEPT !["bare_url"] = <<Match("http", "https://h/e.pdf")>>] }

NoLink == <<"none", "">>

\* Lines 29-35: the link built from one match, or NoLink.
LinkOf(match, base_url) ==
    IF match.kind = "http" THEN <<"", match.text>>
    ELSE IF match.kind = "slashslash" THEN <<"https:", match.text>>
    ELSE IF match.kind = "slash" THEN <<base_url, match.text>>
    ELSE NoLink

RECURSIVE FirstLink(_, _)
FirstLink(matches, base_url) ==
    IF matches = <<>> THEN NoLink
    ELSE IF LinkOf(Head(matches), base_url) # NoLink THEN LinkOf(Head(matches), base_url)
    ELSE FirstLink(Tail(matches), base_url)

RECURSIVE ScanPatterns(_, _, _)
ScanPatterns(html, base_url, k) ==
    IF k > Len(patterns) THEN NoLink
    ELSE IF FirstLink(html[patterns[k]], base_url) # NoLink
         THEN FirstLink(html[patterns[k]], base_url)
    ELSE ScanPatterns(html, base_url, k + 1)

\* extract_pdf_link_from_html, lines 18-37.
extract_pdf_link_from_html(html_content, base_url) == ScanPatterns(html_content, base_url, 1)

\* What requests.get(direct_url, timeout=3, verify=False) can do.
MirrorExceptions == {"timeout", "connection_error"}
MirrorResponses ==
    {[kind |-> k, html |-> NoMatches] : k \in MirrorExceptions \cup {"status_other"}}
    \cup {[kind |-> "status_200", html |-> h] : h \in HtmlDocs}

\* What self.scihub.fetch(doi) can do: return a dict with a 'url', return a
\* dict without one (result['url'] raises KeyError), or raise.
PrimaryOutcomes == {"url", "no_url_key", "raises"}

\* The doi arguments the callers pass.
DoiArguments == {"10.1/a", "https://doi.org/10.1/a"}

\* Line 51.
direct_url(mirror, doi) == <<mirror, "/", doi>>

\* An except clause that catches the timeout only.
CaughtTimeoutOnly(e) == e = "timeout"

\* Line 64: "except Exception" catches whatever a mirror request raises.
CaughtInMirrorLoop(e) == e \in MirrorExceptions

\* Line 94: "except Exception" catches whatever the primary method raises,
\* the KeyError of result['url'] included.
CaughtAfterPrimary(o) == o \in {"no_url_key", "raises"}

\* A loop that steps over every second mirror.
SkipOneMirror(k) == k + 2

\* Line 49: the loop goes on with the next mirror of the list.
NextMirrorIndex(k) == k + 1

\* The doi a call starts with.
CallSearchPaper ==
    /\ mpc = "idle"
    /\ \E d \in DoiArguments : mdoi' = d
    /\ mpc' = "primary"
    /\ UNCHANGED <<mirror_no, attempted, mres>>
    /\ UNCHANGED outsideMirror

\* Lines 83-96: the primary method; any exception leads to the mirrors.
PrimaryFetch ==
    /\ mpc = "primary"
    /\ \E o \in PrimaryOutcomes :
        IF o = "url"
        THEN /\ mres' = [doi |-> mdoi, status |-> "success", method |-> "standard",
                         pdf_url |-> <<"", "https://primary/x.pdf">>, mirror |-> "none"]
             /\ mpc' = "returned"
        ELSE IF CaughtAfterPrimary(o)
        THEN /\ mpc' = "mirrors"            \* line 96: search_with_direct_url(doi)
             /\ UNCHANGED mres
        ELSE /\ mpc' = "raised"
             /\ UNCHANGED mres
    /\ UNCHANGED <<mdoi, mirror_no, attempted>>
    /\ UNCHANGED outsideMirror

\* Lines 49-66: one iteration of the loop over the mirrors.
RequestMirror ==
    /\ mpc = "mirrors"
    /\ mirror_no <= Len(mirrors)
    /\ LET mirror == mirrors[mirror_no]
       IN \E r \in MirrorResponses :
            LET pdf_link == IF r.kind = "status_200"
                            THEN extract_pdf_link_from_html(r.html, mirror)
                            ELSE NoLink
            IN /\ attempted' = Append(attempted,
                        [mirror |-> mirror, url |-> direct_url(mirror, mdoi),
                         response |-> r.kind, html |-> r.html,
                         pdf_link |-> pdf_link])
               /\ IF r.kind \in MirrorExceptions /\ ~CaughtInMirrorLoop(r.kind)
                  THEN /\ mpc' = "raised"
                       /\ UNCHANGED <<mres, mirror_no>>
                  ELSE IF pdf_link # NoLink
                  THEN /\ mres' = [doi |-> mdoi, status |-> "success", method |-> "direct_url",
                                   pdf_url |-> pdf_link, mirror |-> mirror]
                       /\ mpc' = "returned"         \* lines 98-100
                       /\ UNCHANGED mirror_no
                  ELSE /\ mirror_no' = NextMirrorIndex(mirror_no)
                       /\ UNCHANGED <<mres, mpc>>
    /\ UNCHANGED mdoi
    /\ UNCHANGED outsideMirror

\* Lines 68 and 101-103: every mirror was tried.
MirrorsExhausted ==
    /\ mpc = "mirrors"
    /\ mirror_no > Len(mirrors)
    /\ mres' = [doi |-> mdoi, status |-> "not_found", method |-> "none",
                pdf_url |-> NoLink, mirror |-> "none"]
    /\ mpc' = "returned"
    /\ UNCHANGED <<mdoi, mirror_no, attempted>>
    /\ UNCHANGED outsideMirror

MirrorInit ==
    /\ mpc = "idle"
    /\ mdoi = ""
    /\ mirror_no = 1
    /\ attempted = <<>>
    /\ mres = [doi |-> "", status |-> "none", method |-> "none",
               pdf_url |-> NoLink, mirror |-> "none"]

(***************************************************************************)
(* Academic-index record extraction: main.py.                              *)
(***************************************************************************)
\* The URLs of the model and the substring tests of is_pdf_url on them
\* (on url.lower()).
UrlPaperPdf == "https://x.org/paper.PDF"
UrlPdfDownload == "https://x.org/pdf?download=1"
UrlArxiv == "https://arxiv.org/pdf/1234.5678"
UrlDoi == "https://doi.org/10.1/xyz"
UrlDoiPdf == "https://doi.org/10.1/xyz.pdf"
UrlExample == "https://example.com/article/123"
UrlNatureDoi == "https://www.nature.com/articles/doi.org/10.1"

EndsWithDotPdf(u) == u \in {UrlPaperPdf, UrlDoiPdf}
ContainsPdf(u) == u \in {UrlPaperPdf, UrlPdfDownload, UrlArxiv, UrlDoiPdf}
ContainsRenderDownloadView(u) == u \in {UrlPdfDownload}
OnPdfHost(u) == u \in {UrlArxiv, UrlNatureDoi}                \* pdf_hosts, lines 101-111
OnNonPdfPattern(u) == u \in {UrlDoi, UrlDoiPdf, UrlNatureDoi} \* non_pdf_patterns, lines 118-126

\* A classifier that looks at the deny-list first.
is_pdf_url_deny_first(url) ==
    IF url = "" THEN FALSE
    ELSE IF OnNonPdfPattern(url) THEN FALSE
    ELSE EndsWithDotPdf(url) \/ (ContainsPdf(url) /\ ContainsRenderDownloadView(url))
            \/ OnPdfHost(url)

\* is_pdf_url, lines 87-132.
is_pdf_url(url) ==
    IF url = "" THEN FALSE
    ELSE IF EndsWithDotPdf(url) THEN TRUE
    ELSE IF ContainsPdf(url) /\ ContainsRenderDownloadView(url) THEN TRUE
    ELSE IF OnPdfHost(url) THEN TRUE
    ELSE IF OnNonPdfPattern(url) THEN FALSE
    ELSE FALSE

\* The URLs a caller hands to the classifier; "" is an absent URL.
ClassifierUrls ==
    {"", UrlPaperPdf, UrlPdfDownload, UrlArxiv, UrlDoi, UrlDoiPdf, UrlExample, UrlNatureDoi}

\* One call of is_pdf_url, on the next URL of the caller.
Classify ==
    /\ to_classify # <<>>
    /\ classified' = Append(classified,
                        [url |-> Head(to_classify), is_pdf |-> is_pdf_url(Head(to_classify))])
    /\ to_classify' = Tail(to_classify)
    /\ UNCHANGED outsideClassify

\* An identifier is a resolver prefix and the rest; NoId is an absent one.
Id(prefix, rest) == [prefix |-> prefix, rest |-> rest]
NoId == Id("", "")

\* The hits of the index: doi, provider-native id, open-access block and the
\* pdf_url of each location ("" for a location without one).
IndexHits ==
    [doi : {NoId, Id("https://doi.org/", "10.1/a")},
     id : {NoId, Id("https://openalex.org/", "W1")},
     is_oa : BOOLEAN,
     oa_url : {"", UrlArxiv, UrlDoi},
     locations : {<<>>, <<UrlExample>>, <<"", UrlPaperPdf>>}]

\* Lines 233-243 (356-363): the DOI if there is one, else the provider's id.
doi_url_of(a) == IF a.doi # NoId THEN a.doi ELSE a.id

RECURSIVE FirstPdfLocation(_)
FirstPdfLocation(locs) ==           \* lines 257-265 (375-382)
    IF locs = <<>> THEN ""
    ELSE IF Head(locs) # "" /\ is_pdf_url(Head(locs)) THEN Head(locs)
    ELSE FirstPdfLocation(Tail(locs))

\* Lines 245-265 of search_article_link: the PDF link taken from the hit.
pdf_url_article_link(a) ==
    LET from_oa == IF a.is_oa /\ a.oa_url # "" /\ is_pdf_url(a.oa_url) THEN a.oa_url ELSE ""
    IN IF from_oa # "" THEN from_oa ELSE FirstPdfLocation(a.locations)

\* Lines 365-382 of search_multiple_articles: the locations are looked at only
\* when the hit has no open-access URL.
pdf_url_multiple(a) ==
    IF a.is_oa /\ a.oa_url # ""
    THEN IF is_pdf_url(a.oa_url) THEN a.oa_url ELSE ""
    ELSE FirstPdfLocation(a.locations)

pdf_url_of(rt, a) ==
    IF rt = "search_article_link" THEN pdf_url_article_link(a) ELSE pdf_url_multiple(a)

\* Lines 268 and 385: when the mirror adapter is asked.
NeedsScihub(pdf, durl) == pdf = "" /\ durl # NoId

\* Lines 53-58 of try_scihub_search: the resolver prefix is cut off.
BareDoi(durl) ==
    IF durl.prefix \in {"https://doi.org/", "http://dx.doi.org/"}
    THEN Id("", durl.rest)
    ELSE durl

\* What try_scihub_search can hand back: a link, or None (not found, or an
\* exception it caught).
ScihubLinks == {"", "https://m.se/x.pdf"}

Routines == {"search_article_link", "search_multiple_articles"}

NoRecord == [pdf_url |-> "", doi_url |-> NoId, pdf_source |-> "none", rank |-> 0]

\* The values the routines return.
ReturnedNone == [kind |-> "None", records |-> <<>>]
ReturnedRecord(info) == [kind |-> "record", records |-> <<info>>]
ReturnedList(l) == [kind |-> "list", records |-> l]

\* Lines 160-164 and 295-299: the search; an exception or an empty result
\* set ends the routine with None (an empty list).
CallIndexSearch ==
    /\ ipc = "idle"
    /\ \E rt \in Routines, n \in 0..MaxIndexHits, raises \in BOOLEAN :
        /\ routine' = rt
        /\ hits' = n
        /\ IF raises \/ n = 0
           THEN /\ ipc' = "returned"
                /\ iret' = IF rt = "search_article_link" THEN ReturnedNone ELSE ReturnedList(<<>>)
           ELSE /\ ipc' = "extract"
                /\ UNCHANGED iret
    /\ rank' = 1
    /\ articles' = <<>>
    /\ UNCHANGED <<article, article_info, scihub_calls>>
    /\ UNCHANGED outsideIndex

\* Lines 167-277 (302-391): the record of one hit, with the mirror lookup
\* of try_scihub_search when the hit gave no PDF link.
ExtractRecord ==
    /\ ipc = "extract"
    /\ rank <= (IF routine = "search_article_link" THEN 1
                ELSE IF hits < MultipleMaxResults THEN hits ELSE MultipleMaxResults)
    /\ \E a \in IndexHits, available \in BOOLEAN :
        LET pdf == pdf_url_of(routine, a)
            durl == doi_url_of(a)
            asked == NeedsScihub(pdf, durl) /\ available
        IN /\ article' = a
           /\ scihub_calls' = IF asked
                              THEN scihub_calls \cup {[hit |-> a, doi |-> BareDoi(durl)]}
                              ELSE scihub_calls
           /\ \E link \in (IF asked THEN ScihubLinks ELSE {""}) :
                LET info == [pdf_url |-> IF link # "" THEN link ELSE pdf,
                             doi_url |-> durl,
                             pdf_source |-> IF link # "" THEN "scihub" ELSE "none",
                             rank |-> rank]
                IN /\ article_info' = info
                   /\ IF routine = "search_article_link"
                      THEN /\ ipc' = "returned"
                           /\ iret' = ReturnedRecord(info)
                           /\ UNCHANGED <<articles, rank>>
                      ELSE /\ articles' = Append(articles, info)
                           /\ rank' = rank + 1
                           /\ UNCHANGED <<ipc, iret>>
    /\ UNCHANGED <<routine, hits>>
    /\ UNCHANGED outsideIndex

\* Line 393: return articles.
ReturnArticles ==
    /\ ipc = "extract"
    /\ routine = "search_multiple_articles"
    /\ rank > (IF hits < MultipleMaxResults THEN hits ELSE MultipleMaxResults)
    /\ ipc' = "returned"
    /\ iret' = ReturnedList(articles)
    /\ UNCHANGED <<routine, hits, rank, article, article_info, articles, scihub_calls>>
    /\ UNCHANGED outsideIndex

IndexInit ==
    /\ ipc = "idle"
    /\ routine = "search_article_link"
    /\ hits = 0
    /\ rank = 1
    /\ article = [doi |-> NoId, id |-> NoId, is_oa |-> FALSE, oa_url |-> "", locations |-> <<>>]
    /\ article_info = NoRecord
    /\ articles = <<>>
    /\ scihub_calls = {}
    /\ iret = ReturnedNone

(***************************************************************************)
(* Paged keyword search: search_openalex (retrievers/openalex.py).         *)
(***************************************************************************)
\* The works a page can carry: two different records with the id X, one with
\* the id Y, and one without an id.
PageWorks ==
    {[id |-> "X", rec |-> "A"], [id |-> "X", rec |-> "B"],
     [id |-> "Y", rec |-> "C"], [id |-> "", rec |-> "D"]}
PageIds == {w.id : w \in PageWorks} \ {""}
NoWork == [id |-> "", rec |-> "none"]

\* A test that forgets the set of seen ids.
IsNewWorkUnseenIgnored(work, seen) == work.id # ""

\* Lines 63-64: whether a work of the page is appended.
IsNewWork(work, seen) == work.id # "" /\ work.id \notin seen

\* Lines 62-66: the loop over the works of one page.
RECURSIVE DedupPage(_, _, _)
DedupPage(page, acc, seen) ==
    IF page = <<>> THEN [all_results |-> acc, seen_ids |-> seen]
    ELSE IF IsNewWork(Head(page), seen)
         THEN DedupPage(Tail(page), Append(acc, Head(page)), seen \cup {Head(page).id})
    ELSE DedupPage(Tail(page), acc, seen)

\* The first work of each id over everything received so far.
RECURSIVE NoteFirst(_, _)
NoteFirst(page, first) ==
    IF page = <<>> THEN first
    ELSE IF Head(page).id # "" /\ first[Head(page).id] = NoWork
         THEN NoteFirst(Tail(page), [first EXCEPT ![Head(page).id] = Head(page)])
    ELSE NoteFirst(Tail(page), first)

\* A request that always asks for a full page.
per_page_full(wanted, have) == per_page

\* Line 40: "per-page": min(per_page, max_results - len(all_results))
per_page_param(wanted, have) ==
    IF per_page < wanted - have THEN per_page ELSE wanted - have

CallSearchOpenalex ==
    /\ ppc = "idle"
    /\ \E m \in 1..MaxWanted : max_results' = m
    /\ ppc' = "loop"
    /\ UNCHANGED <<all_results, seen_ids, page_no, last_page, first_seen, page_overrun>>
    /\ UNCHANGED outsidePages

\* Lines 37-75: one iteration of the while loop: the request, and the page
\* it brought. The server decides how many works a page holds.
RequestPage ==
    /\ ppc = "loop"
    /\ Len(all_results) < max_results
    /\ page_no' = IF page_no < MaxPages THEN page_no + 1 ELSE page_no
    /\ \/ /\ ppc' = "returned"              \* RequestException: break
          /\ UNCHANGED <<all_results, seen_ids, last_page, first_seen, page_overrun>>
       \/ \E page \in SeqUpTo(PageWorks, MaxPageLen), next_cursor \in BOOLEAN :
            LET d == DedupPage(page, all_results, seen_ids)
            IN /\ last_page' = page
               /\ page_overrun' =
                    (page_overrun \/ Len(page) > per_page_param(max_results, Len(all_results)))
               /\ IF page = <<>>
                  THEN /\ ppc' = "returned"  \* if not results: break
                       /\ UNCHANGED <<all_results, seen_ids, first_seen>>
                  ELSE /\ all_results' = d.all_results
                       /\ seen_ids' = d.seen_ids
                       /\ first_seen' = NoteFirst(page, first_seen)
                       /\ ppc' = IF next_cursor THEN "loop" ELSE "returned"
    /\ UNCHANGED max_results
    /\ UNCHANGED outsidePages

\* Lines 37 and 77: the loop condition fails and the list is returned.
ReturnResults ==
    /\ ppc = "loop"
    /\ ~(Len(all_results) < max_results)
    /\ ppc' = "returned"
    /\ UNCHANGED <<max_results, all_results, seen_ids, page_no, last_page, first_seen,
                   page_overrun>>
    /\ UNCHANGED outsidePages

PagesInit ==
    /\ ppc = "idle"
    /\ max_results = 1
    /\ all_results = <<>>
    /\ seen_ids = {}
    /\ page_no = 0
    /\ last_page = <<>>
    /\ first_seen = [i \in PageIds |-> NoWork]
    /\ page_overrun = FALSE

(***************************************************************************)
(* The query of the web-search adapter: YandexSearch.__init__ and the      *)
(* request body (retrievers/yandex_search.py, utils/yandex_search.py).     *)
(***************************************************************************)
\* The query strings: n characters, for every n up to MaxQueryLen, whose
\* k-th character depends on k.
Queries ==
    {[k \in 1..n |-> IF k % (s + 1) = 0 THEN "b" ELSE "a"] :
        n \in 0..MaxQueryLen, s \in 1..NSeeds}

\* A cut one character short of the limit.
TruncateShort(q) ==
    IF Len(q) < QueryLimit THEN q ELSE SubSeq(q, 1, QueryLimit - 1)

\* Line 30: query if len(query)<400 else query[:400]
Truncate(q) ==
    IF Len(q) < QueryLimit THEN q ELSE SubSeq(q, 1, QueryLimit)

\* Line 30: the constructor stores the query.
Construct ==
    /\ qpc = "new"
    /\ self_query' = Truncate(query)
    /\ qpc' = "constructed"
    /\ UNCHANGED <<query, queryText>>
    /\ UNCHANGED outsideQuery

\* Lines 47-49: search_query = self.query is the queryText of the body.
Transmit ==
    /\ qpc = "constructed"
    /\ queryText' = self_query
    /\ qpc' = "sent"
    /\ UNCHANGED <<query, self_query>>
    /\ UNCHANGED outsideQuery

QueryInit ==
    /\ qpc = "new"
    /\ self_query = <<>>
    /\ queryText = <<>>

(***************************************************************************)
(* Web-search adapter with an allow-list of domains: YandexSearch.search,  *)
(* _parse_xml_results and filter_results_by_domain (utils/yandex_search.py)*)
(***************************************************************************)
\* The netloc of a URL is a sequence of parts; "www." is the part that
\* netloc.replace("www.", "") removes.
NoHref == <<>>
Hrefs == {<<"www.", "a.com">>, <<"a.com">>, <<"b.org">>}

\* Line 169: parsed_url.netloc.replace("www.", "")
RECURSIVE DropWww(_)
DropWww(netloc) ==
    IF netloc = <<>> THEN <<>>
    ELSE IF Head(netloc) = "www." THEN DropWww(Tail(netloc))
    ELSE <<Head(netloc)>> \o DropWww(Tail(netloc))

DomainOf(item) == DropWww(item.href)

\* filter_results_by_domain, lines 166-172.
RECURSIVE filter_results_by_domain(_, _)
filter_results_by_domain(res, domains) ==
    IF res = <<>> THEN <<>>
    ELSE IF DomainOf(Head(res)) \in domains
         THEN <<Head(res)>> \o filter_results_by_domain(Tail(res), domains)
    ELSE filter_results_by_domain(Tail(res), domains)

\* The docs of an XML payload (a doc may lack its title or its url) and the
\* items of a JSON result.
SearchItems == {[title |-> "t", href |-> h] : h \in Hrefs}
XmlDocs == SearchItems \cup {[title |-> "", href |-> <<"a.com">>], [title |-> "t", href |-> NoHref]}

\* Line 146: if title and url
RECURSIVE TitledDocs(_)
TitledDocs(docs) ==
    IF docs = <<>> THEN <<>>
    ELSE IF Head(docs).title # "" /\ Head(docs).href # NoHref
         THEN <<Head(docs)>> \o TitledDocs(Tail(docs))
    ELSE TitledDocs(Tail(docs))

\* The allow-lists of the constructor.
AllowLists == {{}, {<<"a.com">>}, {<<"c.net">>}}

\* The response bodies of search: not JSON, or a JSON object with a rawData
\* field (absent, not base64/UTF-8, base64 of malformed XML, base64 of XML
\* with docs) and with or without a "result" object with items.
SearchBodies ==
    {[json |-> FALSE, rawData |-> "absent", docs |-> <<>>, hasResult |-> FALSE, items |-> <<>>]}
    \cup {[json |-> TRUE, rawData |-> r, docs |-> <<>>, hasResult |-> TRUE, items |-> i] :
            r \in {"absent", "bad_b64", "bad_xml"}, i \in SeqUpTo(SearchItems, MaxItems)}
    \cup {[json |-> TRUE, rawData |-> "absent", docs |-> <<>>, hasResult |-> FALSE, items |-> <<>>]}
    \cup {[json |-> TRUE, rawData |-> "xml", docs |-> d, hasResult |-> FALSE, items |-> <<>>] :
            d \in SeqUpTo(XmlDocs, MaxItems)}

\* _parse_xml_results of utils/yandex_search.py, lines 120-154.
utils_parse_xml_results(body, domains) ==
    IF body.rawData = "bad_xml" THEN Raised("xml_parse")
    ELSE LET res == TitledDocs(body.docs)
             results1 == filter_results_by_domain(res, domains)
         IN Returned(IF domains # {} /\ results1 # <<>> THEN results1 ELSE res)

\* Lines 101-118 of search: decoding of the response.
SearchDecode(body, limit, domains) ==
    IF ~body.json THEN Raised("invalid_json")
    ELSE IF body.rawData # "absent" THEN
        IF body.rawData = "bad_b64" THEN Raised("rawData_decode")
        ELSE utils_parse_xml_results(body, domains)
    ELSE IF ~body.hasResult THEN Raised("unexpected_structure")
    ELSE Returned(Take(body.items, limit))

\* Lines 15-38 and 58: the adapter is built and search is called.
CallSearch ==
    /\ upc = "idle"
    /\ \E d \in AllowLists, m \in 1..MaxItems :
        /\ query_domains' = d
        /\ search_max' = m
    /\ upc' = "request"
    /\ UNCHANGED <<data, uret>>
    /\ UNCHANGED outsideSearch

\* Lines 80-98: the request loop ends with a response or with an exception.
PostSearch ==
    /\ upc = "request"
    /\ \/ /\ upc' = "raised"
          /\ uret' = Raised("request_failed")
          /\ UNCHANGED data
       \/ \E body \in SearchBodies :
            /\ data' = body
            /\ upc' = "decode"
            /\ UNCHANGED uret
    /\ UNCHANGED <<query_domains, search_max>>
    /\ UNCHANGED outsideSearch

\* Lines 101-118.
DecodeSearch ==
    /\ upc = "decode"
    /\ uret' = SearchDecode(data, search_max, query_domains)
    /\ upc' = IF uret'.ok THEN "returned" ELSE "raised"
    /\ UNCHANGED <<query_domains, search_max, data>>
    /\ UNCHANGED outsideSearch

SearchInit ==
    /\ upc = "idle"
    /\ query_domains = {}
    /\ search_max = 1
    /\ data = [json |-> FALSE, rawData |-> "absent", docs |-> <<>>, hasResult |-> FALSE, items |-> <<>>]
    /\ uret = Returned(<<>>)

(***************************************************************************)
(* Output directories of the two downloading providers                     *)
(* (retrievers/openalex.py, retrievers/_serpapi.py).                       *)
(***************************************************************************)
\* The article_name values of the runs.
Topics == {"topicA", "topicB"}

\* retrievers/openalex.py, lines 147-148: project_root / "data" / "1" /
\* "openalex"; the function has no article_name.
openalex_output_dir(article_name) == <<"project_root", "data", "1", "openalex">>

\* retrievers/_serpapi.py, line 64: Path("data") / article_name / "serpapi"
serpapi_output_dir(article_name) == <<"data", article_name, "serpapi">>

\* A file extract_openalex_pdfs writes in a run for the topic article_name
\* (lines 198-201 and 122).
WriteOpenalexFile ==
    /\ Cardinality(written) < MaxWrites
    /\ \E article_name \in Topics, i \in 1..MaxHits, w \in Works :
        written' = written \cup
            {[topic |-> article_name, provider |-> "openalex",
              dir |-> openalex_output_dir(article_name), file |-> filepath(i, w.title)]}
    /\ UNCHANGED outsidePaths

\* A file extract_serpapi_pdfs writes (lines 82-87 and 106): the file name
\* is built as in extract_openalex_pdfs.
WriteSerpapiFile ==
    /\ Cardinality(written) < MaxWrites
    /\ \E article_name \in Topics, i \in 1..MaxHits, w \in Works :
        written' = written \cup
            {[topic |-> article_name, provider |-> "serpapi",
              dir |-> serpapi_output_dir(article_name), file |-> filepath(i, w.title)]}
    /\ UNCHANGED outsidePaths

(***************************************************************************)
(* Exact-title lookup: search_by_exact_title (main.py).                    *)
(***************************************************************************)
\* The searches in the reverse of the order of lines 411-419.
strategies_reversed == <<"plain_search", "quoted_search", "title_filter">>

\* Lines 411, 415 and 419: Works().filter(**{"title.search": title}),
\* Works().search(f'"{title}"') and Works().search(title), in this order.
strategies == <<"title_filter", "quoted_search", "plain_search">>

\* The result sets a search can give.
ExactHits == {"h1", "h2", "h3"}
ExactResultSets ==
    {r \in SeqUpTo(ExactHits, MaxExactHits) : \A a, b \in 1..Len(r) : a # b => r[a] # r[b]}

NoneReturned == [kind |-> "None", top |-> "none"]
RecordOf(hit) == [kind |-> "record", top |-> hit]

\* Line 409: the routine is entered.
CallExactTitle ==
    /\ xpc = "idle"
    /\ xpc' = "search"
    /\ UNCHANGED <<tried, xerror, xret>>
    /\ UNCHANGED outsideExact

\* Lines 411-423: the next search is made when no search before it gave a
\* result; an exception ends the routine with None (lines 526-528), and so
\* does an empty result set of the last search.
TrySearch ==
    /\ xpc = "search"
    /\ Len(tried) < Len(strategies)
    /\ LET st == strategies[Len(tried) + 1]
       IN \/ /\ tried' = Append(tried, [strategy |-> st, results |-> <<>>, raised |-> TRUE])
             /\ xerror' = TRUE
             /\ xret' = NoneReturned
             /\ xpc' = "returned"
          \/ \E r \in ExactResultSets :
                /\ tried' = Append(tried, [strategy |-> st, results |-> r, raised |-> FALSE])
                /\ IF r # <<>>
                   THEN /\ xpc' = "build"
                        /\ UNCHANGED xret
                   ELSE IF Len(tried') = Len(strategies)
                   THEN /\ xpc' = "returned"        \* lines 421-423
                        /\ xret' = NoneReturned
                   ELSE UNCHANGED <<xpc, xret>>
                /\ UNCHANGED xerror
    /\ UNCHANGED outsideExact

\* Lines 425-528: the record is built from results[0]; an exception on the
\* way ends the routine with None.
BuildExactRecord ==
    /\ xpc = "build"
    /\ \/ /\ xret' = RecordOf(Head(tried[Len(tried)].results))
          /\ UNCHANGED xerror
       \/ /\ xret' = NoneReturned
          /\ xerror' = TRUE
    /\ xpc' = "returned"
    /\ UNCHANGED tried
    /\ UNCHANGED outsideExact

ExactInit ==
    /\ xpc = "idle"
    /\ tried = <<>>
    /\ xerror = FALSE
    /\ xret = NoneReturned

(***************************************************************************)
(* Publication date of a hit: main.py, lines 169-184 (and 428-443).        *)
(***************************************************************************)
\* The parts between the hyphens of a date string: decimal numbers, a part
\* that is not a number, and an empty part.
DateTokens == {"2020", "05", "12", "xx", ""}
Numeric(p) == p \in {"2020", "05", "12"}
IntOf(p) == IF p = "2020" THEN 2020 ELSE IF p = "05" THEN 5 ELSE 12

\* The date strings: an absent date, or one to MaxDateParts parts; the
\* string of one empty part is the empty string, which line 174 skips.
DateStrings == {d \in SeqUpTo(DateTokens, MaxDateParts) : d # <<"">>}

None == [present |-> FALSE, val |-> 0]
Parsed(n) == [present |-> TRUE, val |-> n]

\* Lines 171-184: the month is assigned before the day is parsed, and the
\* except clause leaves both variables as they are.
ParsedMonth(parts) ==
    IF Len(parts) >= 2 /\ Numeric(parts[2]) THEN Parsed(IntOf(parts[2])) ELSE None

ParsedDay(parts) ==
    IF Len(parts) >= 3 /\ Numeric(parts[2]) /\ Numeric(parts[3])
    THEN Parsed(IntOf(parts[3])) ELSE None

ParseDate ==
    /\ dpc = "new"
    /\ publication_month' = ParsedMonth(date_parts)
    /\ publication_day' = ParsedDay(date_parts)
    /\ dpc' = "parsed"
    /\ UNCHANGED date_parts
    /\ UNCHANGED outsideDate

DateInit ==
    /\ dpc = "new"
    /\ publication_month = None
    /\ publication_day = None

(***************************************************************************)
(* Specifications.                                                         *)
(***************************************************************************)
vars == <<orchVars, webVars, batchVars, mirrorVars, indexVars, pageVars, queryVars, searchVars,
          classifyVars, pathVars, exactVars, dateVars>>

\* Every component before its first call.
Idle ==
    /\ OrchInit /\ WebIdle /\ BatchInit /\ MirrorInit /\ IndexInit /\ PagesInit
    /\ QueryInit /\ SearchInit
    /\ classified = <<>>
    /\ written = {}
    /\ ExactInit
    /\ DateInit

\* No input is drawn for the query and the classifier components.
NoInput == query = <<>> /\ to_classify = <<>> /\ date_parts = <<>>

\* One run of download_relevant_pdfs.
Init == Idle /\ NoInput

Next ==
    \/ InvokeKeywordChain
    \/ Post
    \/ Decode
    \/ WebSearchEnds
    \/ TranslateKeywords
    \/ CallExtractOpenalex

Spec == Init /\ [][Next]_vars

\* A run of extract_openalex_pdfs calls, one per keyword, on one output
\* directory: the calls the loops of download_relevant_pdfs (lines 96-105)
\* make, in the form extract_openalex_pdfs(query) that the function accepts.
InitBatch == Idle /\ NoInput

NextBatch ==
    \/ StartCall
    \/ NextWork
    \/ TryUrl
    \/ Fallback

SpecBatch == InitBatch /\ [][NextBatch]_vars

\* One call of search_paper_by_doi.
InitMirror == Idle /\ NoInput

NextMirror ==
    \/ CallSearchPaper
    \/ PrimaryFetch
    \/ RequestMirror
    \/ MirrorsExhausted

SpecMirror == InitMirror /\ [][NextMirror]_vars

\* One call of a record-extraction routine of main.py.
InitIndex == Idle /\ NoInput

NextIndex ==
    \/ CallIndexSearch
    \/ ExtractRecord
    \/ ReturnArticles

SpecIndex == InitIndex /\ [][NextIndex]_vars

\* One call of search_openalex.
InitPages == Idle /\ NoInput

NextPages ==
    \/ CallSearchOpenalex
    \/ RequestPage
    \/ ReturnResults

SpecPages == InitPages /\ [][NextPages]_vars

(***************************************************************************)
(* Properties.                                                             *)
(***************************************************************************)
Last(s) == s[Len(s)]

\* C1: batch resilience. When every provider call of a batch raised, the
\* run of download_relevant_pdfs that has ended has ended by returning, with
\* an empty snippet set, and not by raising.
C1_BatchResilience ==
    (opc \in {"returned", "raised"} /\ ~provider_ok)
        => (opc = "returned" /\ chunks = {})

\* C2: fetcher atomicity. After a download_pdf_from_url call that failed on
\* a path where no file was before, no file is at that path.
C2_NoFileAfterFailure ==
    (fetch_log # <<>> /\ ~Last(fetch_log).ok /\ Last(fetch_log).before = NoFile)
        => files[Last(fetch_log).path] = NoFile

\* C3: within one run no two distinct works are downloaded to the same file
\* path.
C3_DistinctWorksDistinctPaths ==
    \A a, b \in fetched : (a.ok /\ b.ok /\ a.work # b.work) => a.path # b.path

\* C4: within one run no work is fetched for more than one keyword: a work
\* handled for an earlier keyword is skipped.
C4_NoWorkFetchedTwice ==
    \A a, b \in fetched : a.work = b.work => a.call = b.call

\* C5: the list search_openalex builds holds at most one work per id, the
\* work kept is the first one received with that id, a work without an id
\* is never in it, and every id received is in it.
C5_DedupFirstSeen ==
    /\ \A i, j \in 1..Len(all_results) : i # j => all_results[i].id # all_results[j].id
    /\ \A i \in 1..Len(all_results) :
         /\ all_results[i].id # ""
         /\ all_results[i] = first_seen[all_results[i].id]
    /\ \A x \in PageIds :
         first_seen[x] # NoWork => \E i \in 1..Len(all_results) : all_results[i].id = x

\* A second work with the id X and a work without an id were received and
\* dropped, and two works were kept.
C5_Witness ==
    /\ Len(all_results) = 2
    /\ \E k \in 1..Len(last_page) : last_page[k].id = "X" /\ last_page[k] # first_seen["X"]
    /\ \E k \in 1..Len(last_page) : last_page[k].id = ""

\* C6: the mirrors are requested in the order of the fixed list, each at
\* most once; no mirror is requested after one that gave a link; and the
\* result of the backup method is the link and the mirror of the last
\* request, which answered 200.
C6_MirrorOrder ==
    LET order == <<"https://sci-hub.ru", "https://sci-hub.st",
                   "https://sci-hub.se", "https://sci-hub.ren">>
    IN /\ Len(attempted) <= Len(order)
       /\ \A k \in 1..Len(attempted) : attempted[k].mirror = order[k]
       /\ \A k \in 1..(Len(attempted) - 1) : attempted[k].pdf_link = NoLink
       /\ (mpc = "returned" /\ mres.method = "direct_url") =>
            /\ attempted # <<>>
            /\ Last(attempted).response = "status_200"
            /\ Last(attempted).pdf_link # NoLink
            /\ mres.pdf_url = Last(attempted).pdf_link
            /\ mres.mirror = order[Len(attempted)]
            /\ mres.status = "success"

\* Only the third mirror gave a link: two failed requests came before it
\* and the fourth mirror was not requested.
C6_Witness ==
    /\ mpc = "returned"
    /\ Len(attempted) = 3
    /\ attempted[1].response = "timeout"
    /\ attempted[2].response = "status_200"
    /\ mres.mirror = "https://sci-hub.se"
    /\ mres.pdf_url = <<"https://sci-hub.se", "/d/c.pdf">>

\* C7: search_paper_by_doi never raises, and when the primary method and
\* every mirror failed it returns status 'not_found' without a pdf_url.
C7_NeverRaises ==
    /\ mpc # "raised"
    /\ (mpc = "returned" /\ mres.method # "standard"
            /\ \A k \in 1..Len(attempted) : attempted[k].pdf_link = NoLink)
        => (mres.status = "not_found" /\ mres.pdf_url = NoLink)

\* The primary method failed and the four mirrors failed in the three ways:
\* an exception, a status other than 200, a page without a link.
C7_Witness ==
    /\ mpc = "returned"
    /\ mres.status = "not_found"
    /\ Len(attempted) = 4
    /\ \E k \in 1..4 : attempted[k].response = "connection_error"
    /\ \E k \in 1..4 : attempted[k].response = "status_other"
    /\ \E k \in 1..4 : attempted[k].response = "status_200"

C9_RetryDiscipline ==
    /\ Cardinality({k \in 1..Len(wlog) : wlog[k].ev = "post"}) <= 3
    /\ \A k \in 1..Len(wlog) :
         /\ (wlog[k].ev = "post" /\ k > 1) =>
                /\ k >= 3
                /\ wlog[k - 1].ev = "sleep"
                /\ wlog[k - 1].secs = (IF k = 3 THEN 1 ELSE 2)
                /\ wlog[k - 2].ev = "post"
                /\ wlog[k - 2].outcome \in {"connection_error", "timeout"}
         /\ wlog[k].ev = "sleep" => (k \in {2, 4} /\ k < Len(wlog) + 1 /\ wlog[k - 1].ev = "post")
         /\ (wlog[k].ev = "post" /\ wlog[k].outcome \in {"http_error", "ok"}) => k = Len(wlog)
         /\ (wlog[k].ev = "post" /\ wlog[k].outcome = "http_error") =>
                (~wret.ok /\ wpc \notin {"request", "decode"})

\* Three requests were sent, the first two failed with a timeout and a
\* connection error, and the third was answered with an HTTP error status.
C9_Witness ==
    /\ Len(wlog) = 5
    /\ wlog[1].outcome = "timeout"
    /\ wlog[3].outcome = "connection_error"
    /\ wlog[5].outcome = "http_error"
    /\ wpc = "raised"

\* C10: extract_yandex_snippets never lets an exception out: a failure
\* inside it ends the call with an empty list.
C10_AdapterNeverRaises ==
    wpc # "raised"

\* C11: a transport or parse error during one academic-index query never
\* raises: the routines of main.py end with None or an empty list, and the
\* keyword search of extract_openalex_pdfs ends with an empty list.
C11_IndexQueryNeverRaises ==
    /\ bpc # "raised"
    /\ ipc # "raised"

\* One construction of the adapter and the request body built from it.
InitQuery == Idle /\ query \in Queries /\ to_classify = <<>> /\ date_parts = <<>>

NextQuery ==
    \/ Construct
    \/ Transmit

SpecQuery == InitQuery /\ [][NextQuery]_vars

\* C12: the query text transmitted is the first min(len(q), 400) characters
\* of the query q: a query of at most 400 characters is sent unchanged, a
\* longer one is cut to exactly its first 400 characters.
C12_QueryTruncation ==
    qpc = "sent" =>
        /\ Len(queryText) = (IF Len(query) <= 400 THEN Len(query) ELSE 400)
        /\ \A k \in 1..Len(queryText) : queryText[k] = query[k]

\* A query of more than 400 characters was sent as 400 characters.
C12_Witness ==
    /\ qpc = "sent"
    /\ Len(query) > 400
    /\ Len(queryText) = 400

\* One call of YandexSearch(query, query_domains=...).search(max_results).
InitSearch == Idle /\ NoInput

NextSearch ==
    \/ CallSearch
    \/ PostSearch
    \/ DecodeSearch

SpecSearch == InitSearch /\ [][NextSearch]_vars

\* The results of the response before any domain filter: the docs with a
\* title and a url of an XML payload, the first max_results items of a JSON
\* result.
Unfiltered ==
    IF data.rawData = "xml" THEN TitledDocs(data.docs) ELSE Take(data.items, search_max)

\* C13: domain filtering never zeroes out results, for both response
\* shapes: with an empty allow-list the results are returned unfiltered,
\* with an allow-list that some result matches exactly the matching results
\* are returned in their order, and with an allow-list that no result
\* matches the unfiltered list is returned.
C13_DomainFiltering ==
    (upc = "returned") =>
        LET matching == SelectSeq(Unfiltered,
                            LAMBDA item : \E h \in query_domains :
                                item.href \in {h, <<"www.">> \o h})
        IN uret.val = (IF query_domains = {} \/ matching = <<>> THEN Unfiltered ELSE matching)

\* C14: search raises a decode error only if the response is neither a
\* valid base64+XML payload nor a JSON object with a result envelope.
C14_DecodeErrorOnlyIfNeither ==
    (upc = "raised" /\ uret.err \in {"invalid_json", "rawData_decode", "xml_parse",
                                      "unexpected_structure"})
        => /\ ~(data.json /\ data.rawData = "xml")
           /\ ~(data.json /\ data.hasResult)

\* A caller classifies its candidate URLs one after the other.
InitClassify ==
    Idle /\ query = <<>> /\ to_classify \in SeqUpTo(ClassifierUrls, MaxUrls) /\ date_parts = <<>>

NextClassify == Classify

SpecClassify == InitClassify /\ [][NextClassify]_vars

\* C15: the classifier has three outcomes a caller can tell apart: a URL on
\* an allow-list pattern such as https://arxiv.org/pdf/1234.5678 is Direct,
\* and a URL on a deny-list host such as https://doi.org/10.1/xyz
\* (LandingPage) gets another outcome than a URL that matches no rule such
\* as https://example.com/article/123 (Unknown).
C15_ThreeOutcomes ==
    \A i, j \in 1..Len(classified) :
        /\ classified[i].url = "https://arxiv.org/pdf/1234.5678" => classified[i].is_pdf
        /\ (classified[i].url = "https://doi.org/10.1/xyz"
                /\ classified[j].url = "https://example.com/article/123")
            => classified[i].is_pdf # classified[j].is_pdf

\* C16: the rules are applied in order and the first match wins: a URL
\* ending in .pdf is Direct even on a deny-list host, a URL with 'pdf' and
\* 'render', 'download' or 'view' is Direct, a URL on an allow-list pattern
\* and on a deny-list pattern is Direct, the deny-list decides only for a
\* URL that matches none of the rules 1 to 3, and an empty URL is never
\* Direct.
C16_FirstMatchWins ==
    \A i \in 1..Len(classified) :
        LET u == classified[i].url
            direct == classified[i].is_pdf
        IN /\ u \in {"https://x.org/paper.PDF", "https://doi.org/10.1/xyz.pdf"} => direct
           /\ u = "https://x.org/pdf?download=1" => direct
           /\ u = "https://www.nature.com/articles/doi.org/10.1" => direct
           /\ u = "" => ~direct
           /\ (u # "" /\ (EndsWithDotPdf(u)
                            \/ (ContainsPdf(u) /\ ContainsRenderDownloadView(u))
                            \/ OnPdfHost(u))) => direct
           /\ direct => (EndsWithDotPdf(u)
                            \/ (ContainsPdf(u) /\ ContainsRenderDownloadView(u))
                            \/ OnPdfHost(u))

\* A URL ending in .pdf on a deny-list host and a URL on both lists were
\* classified.
C16_Witness ==
    /\ Len(classified) = 2
    /\ classified[1].url = UrlDoiPdf /\ classified[1].is_pdf
    /\ classified[2].url = UrlNatureDoi /\ classified[2].is_pdf

\* C17: a run of download_relevant_pdfs whose provider calls all succeeded
\* completes by returning the pair (snippet set, list of the records of
\* the files downloaded during the run).
C17_ReturnsSnippetsAndArtifacts ==
    (opc \in {"returned", "raised"}
        /\ oerr \notin {"keyword_chain_error", "translate_error"}
        /\ wret.ok)
    => (opc = "returned" /\ ReturnedPair = <<"chunks", "downloaded_files">>)

\* The files the two providers write in runs for different topics.
InitPaths == Idle /\ NoInput

NextPaths ==
    \/ WriteOpenalexFile
    \/ WriteSerpapiFile

SpecPaths == InitPaths /\ [][NextPaths]_vars

\* C18: every file downloaded in a run is written under a directory that
\* has the topic identifier of the run as a component, so the files of two
\* runs with different topic identifiers have different paths, for both
\* providers.
C18_TopicNamespacedPaths ==
    /\ \A a \in written : \E k \in 1..Len(a.dir) : a.dir[k] = a.topic
    /\ \A a, b \in written :
         a.topic # b.topic => <<a.dir, a.file>> # <<b.dir, b.file>>

\* C19: every record of downloaded_files refers to a file that exists and
\* is not empty, the size recorded is the number of body chunks received
\* and written for that download, and a response with an empty body gives
\* no record.
C19_ArtifactNonEmpty ==
    \A k \in 1..Len(downloaded_files) :
        LET rec == downloaded_files[k]
        IN /\ files[rec.filepath] # NoFile
           /\ files[rec.filepath].work = rec.work
           /\ rec.size = files[rec.filepath].size
           /\ rec.size > 0

\* One call of search_by_exact_title.
InitExact == Idle /\ NoInput

NextExact ==
    \/ CallExactTitle
    \/ TrySearch
    \/ BuildExactRecord

SpecExact == InitExact /\ [][NextExact]_vars

\* C20: the searches are made in the order title filter, quoted search,
\* plain search; a search is made only if every search before it gave an
\* empty result set; the record returned is built from the first hit of
\* the first result set that is not empty; and None is returned only if
\* all three result sets are empty or an error occurred.
C20_StrategyOrder ==
    LET order == <<"title_filter", "quoted_search", "plain_search">>
    IN /\ Len(tried) <= 3
       /\ \A k \in 1..Len(tried) : tried[k].strategy = order[k]
       /\ \A k \in 1..(Len(tried) - 1) : tried[k].results = <<>> /\ ~tried[k].raised
       /\ (xpc = "returned" /\ xret.kind = "record") =>
            /\ tried # <<>>
            /\ Last(tried).results # <<>>
            /\ xret.top = Last(tried).results[1]
       /\ (xpc = "returned" /\ xret.kind = "None") =>
            \/ xerror
            \/ Len(tried) = 3 /\ \A k \in 1..3 : tried[k].results = <<>>

\* The title filter and the quoted search gave nothing, the plain search
\* gave two hits, and the record of the first of them was returned.
C20_Witness ==
    /\ xpc = "returned"
    /\ Len(tried) = 3
    /\ tried[1].results = <<>> /\ tried[2].results = <<>>
    /\ tried[3].results = <<"h2", "h1">>
    /\ xret = RecordOf("h2")

\* C21: for every question of the batch a web search is started exactly
\* once, also when the keyword extraction of the question failed or gave no
\* keyword, and no academic-index search is issued before the web searches
\* of the questions.
C21_WebSearchOncePerQuestion ==
    /\ \A q \in 1..NQ : web_calls[q] <= 1
    /\ opc = "openalex" => \A q \in 1..NQ : web_calls[q] = 1
    /\ (opc = "raised" /\ oerr = "keyword_chain_error") =>
            \A q \in 1..question_no : web_calls[q] = 1

C23_AtMostMaxEntries ==
    upc = "returned" => Len(uret.val) <= search_max

\* The candidate URLs of a work in the priority order open-access URL,
\* primary location, secondary locations, each URL once.
RECURSIVE KeepFirst(_, _)
KeepFirst(urls, seen) ==
    IF urls = <<>> THEN <<>>
    ELSE IF Head(urls) = "" \/ Head(urls) \in seen THEN KeepFirst(Tail(urls), seen)
    ELSE <<Head(urls)>> \o KeepFirst(Tail(urls), seen \cup {Head(urls)})

PriorityOrder(w) ==
    KeepFirst(<<w.best_oa_pdf, IF EndsWithPdf(w.oa_url) THEN w.oa_url ELSE "", w.primary_pdf>>
                \o w.locations_pdf, {})

\* C24: the candidate URLs of one work are fetched in the priority order
\* open-access URL, primary location, secondary locations, each at most
\* once, and a URL that is not a direct PDF link is not fetched while a
\* direct PDF link of the work is untried.
C24_PriorityOrder ==
    LET own == SelectSeq(fetch_log, LAMBDA e : e.source = "openalex")
    IN \A k \in 1..Len(own) :
        LET w == CHOOSE x \in Works : x.id = own[k].work
            before == {own[j].url : j \in 1..(k - 1)}
        IN /\ k <= Len(PriorityOrder(w))
           /\ own[k].url = PriorityOrder(w)[k]
           /\ ~EndsWithPdf(own[k].url) =>
                \A u \in pdf_urls(w) : EndsWithPdf(u) => u \in before

\* C25: in the record of a hit, if a candidate URL of the hit (the
\* open-access URL, then the location URLs) is a direct PDF link, pdf_url is
\* the first such URL and the mirror is not asked for the hit; if none is,
\* doi_url is the DOI, or the provider's id when there is no DOI.
C25_FirstDirectWins ==
    article_info.rank > 0 =>
        LET cands == (IF article.is_oa THEN <<article.oa_url>> ELSE <<>>) \o article.locations
            direct == SelectSeq(cands, LAMBDA u : u # "" /\ is_pdf_url(u))
        IN IF direct # <<>>
           THEN /\ article_info.pdf_url = direct[1]
                /\ article_info.pdf_source # "scihub"
                /\ \A c \in scihub_calls : c.hit # article
           ELSE article_info.doi_url = (IF article.doi # NoId THEN article.doi ELSE article.id)

\* The date of one hit is parsed.
InitDate == Idle /\ query = <<>> /\ to_classify = <<>> /\ date_parts \in DateStrings

NextDate == ParseDate

SpecDate == InitDate /\ [][NextDate]_vars

\* C26: a date string of which the month part or the day part does not
\* parse gives a record without publication_month and without
\* publication_day.
C26_MalformedDateYearOnly ==
    (dpc = "parsed" /\ \E k \in 2..Len(date_parts) : date_parts[k] \notin {"2020", "05", "12"})
        => (~publication_month.present /\ ~publication_day.present)

\* C27: the link of a page is built from the first match of the first
\* pattern, in the order src, href, redirect assignment, bare URL, that
\* matches at all: an absolute match as it is, a '//' match after
\* "https:", a '/' match after the mirror host; no match is passed over
\* for a later one, and there is no link only if no pattern matches.
C27_FirstMatchFirstPattern ==
    LET order == <<"src", "href", "location_href", "bare_url">>
    IN \A k \in 1..Len(attempted) :
        attempted[k].response = "status_200" =>
            LET html == attempted[k].html
                matching == {i \in 1..Len(order) : html[order[i]] # <<>>}
            IN IF matching = {}
               THEN attempted[k].pdf_link = <<"none", "">>
               ELSE LET first == CHOOSE i \in matching : \A j \in matching : i <= j
                        match == html[order[first]][1]
                    IN /\ attempted[k].pdf_link # <<"none", "">>
                       /\ attempted[k].pdf_link[2] = match.text
                       /\ match.kind = "http" => attempted[k].pdf_link[1] = ""
                       /\ match.kind = "slashslash" => attempted[k].pdf_link[1] = "https:"
                       /\ match.kind = "slash" => attempted[k].pdf_link[1] = attempted[k].mirror

\* search_openalex under a scheduler that lets the call go on: a loop
\* iteration that can be taken is taken, and so is the return.
SpecPagesFair ==
    /\ InitPages
    /\ [][NextPages]_vars
    /\ WF_vars(CallSearchOpenalex)
    /\ WF_vars(RequestPage)
    /\ WF_vars(ReturnResults)

\* C28: a call of search_openalex returns after finitely many page
\* requests, whatever pages and cursors the server sends.
C28_Terminates == (ppc = "loop") ~> (ppc = "returned")

\* C29: in one call of extract_openalex_pdfs a work has at most one record;
\* nothing is fetched for a work after a download of it succeeded, and the
\* mirror is not asked for a work that has an 'openalex' record; an
\* 'openalex' record carries one of the work's own candidate URLs; and a
\* 'scihub' fetch happens only for a work with a DOI of which every
\* candidate URL was fetched and failed (or which has none).
C29_OneRecordPerWork ==
    LET WorkOf(id) == CHOOSE x \in Works : x.id = id
        Candidates(w) ==
            ({w.best_oa_pdf, w.primary_pdf} \cup {w.locations_pdf[k] : k \in 1..Len(w.locations_pdf)}
                \cup {u \in {w.oa_url} : EndsWithPdf(u)}) \ {""}
    IN /\ \A a, b \in 1..Len(downloaded_files) :
            a # b => downloaded_files[a].work # downloaded_files[b].work
       /\ \A k \in 1..(Len(fetch_log) - 1) : ~fetch_log[k].ok
       /\ \A k \in 1..Len(downloaded_files) :
            LET rec == downloaded_files[k]
            IN /\ rec.source \in {"openalex", "scihub"}
               /\ rec.source = "openalex" =>
                    /\ rec.url \in Candidates(WorkOf(rec.work))
                    /\ \A m \in mirror_log : ~(m.call = call_no /\ m.work = rec.work)
               /\ rec.source = "scihub" =>
                    /\ rec.doi # ""
                    /\ \E m \in mirror_log : m.call = call_no /\ m.work = rec.work
       /\ \A k \in 1..Len(fetch_log) :
            fetch_log[k].source = "scihub" =>
                /\ WorkOf(fetch_log[k].work).doi # ""
                /\ \A j \in 1..(k - 1) : fetch_log[j].source = "openalex"
                /\ {fetch_log[j].url : j \in 1..(k - 1)} = Candidates(WorkOf(fetch_log[k].work))

\* A call gave an 'openalex' record for its first work and, after the only
\* candidate URL of its second work failed, a 'scihub' record for that one.
C29_Witness ==
    /\ bpc = "work"
    /\ Len(downloaded_files) = 2
    /\ downloaded_files[1].source = "openalex"
    /\ downloaded_files[2].source = "scihub"
    /\ Len(fetch_log) = 2
    /\ ~fetch_log[1].ok
    /\ fetch_log[2].source = "scihub"

\* C30: the DOI that extract_openalex_pdfs hands to search_paper_by_doi is
\* the bare identifier, without the resolver prefix "https://doi.org/" or
\* "http://dx.doi.org/".
C30_BareDoiToMirror ==
    \A m \in mirror_log : m.doi \in {"10.1/a", "10.1/c"}

====
